---- MODULE Spec2Model ----
(***************************************************************************)
(* DBManager (manager.py): a connection / session lifecycle manager on top *)
(* of a persistence engine.  The manager's fields are the variables; the   *)
(* engines, session factories and sessions it creates live in three heaps  *)
(* (sequences, an object's identity is its index).  Every method is a      *)
(* function from the program state to the program state, so that a method  *)
(* that calls another (initialize -> create_engine, bootstrap,             *)
(* create_session; add -> commit) is the composition the code performs.    *)
(* The compilation rules and the view hooks of utils.py are modelled with  *)
(* the schema events (create_all, drop_all) that run them.                 *)
(***************************************************************************)
EXTENDS Integers, Sequences, FiniteSets, TLC

\* Python's None; object identities are 1, 2, ...
None == 0

\* ----- bounds of the model
MaxEngines == 2
MaxFactories == 2
MaxSessions == 2
MaxViews == 2

\* connection descriptors, schema metadata containers, records, contexts
Descriptors == {1, 2}
Metadatas == {1}
Records == {1}
Contexts == {"t1", "t2"}
\* filter keys given to query: one declared attribute of the model, one not
FilterKeys == {"id", "bogus"}

VARIABLES
    conn_string,      \* self.conn_string: None or a descriptor
    metadata,         \* self.metadata: None or a metadata container
    session_factory,  \* self.session_factory: the factory object, or NoFactory
    session,          \* self.session: None or a session of `sessions`
    scoped_sessions,  \* self.scoped_sessions
    engine,           \* self.engine: None or an engine
    engines,          \* the backend of every engine the manager has opened
    n_factories,      \* how many session factories have been built
    sessions,         \* every session built so far: [factory, bind, closed, new, deleted]
    rows,             \* committed records of each backend
    applied,          \* the create_all calls of the last call: <<metadata, engine>>
    listeners,        \* the event listeners of each metadata container
    statements,       \* the SQL compiled by the last call: [engine, text]
    ret,              \* what the last call returned or raised
    op                \* the last call and its arguments

vars == <<conn_string, metadata, session_factory, session, scoped_sessions,
          engine, engines, n_factories, sessions, rows, applied, listeners,
          statements, ret, op>>

\* ----- the program state as one value
Self ==
    [conn_string |-> conn_string, metadata |-> metadata,
     session_factory |-> session_factory, session |-> session,
     scoped_sessions |-> scoped_sessions, engine |-> engine,
     engines |-> engines, n_factories |-> n_factories, sessions |-> sessions,
     rows |-> rows, applied |-> <<>>, listeners |-> listeners,
     statements |-> <<>>, ret |-> ret]

Store(s) ==
    /\ conn_string' = s.conn_string
    /\ metadata' = s.metadata
    /\ session_factory' = s.session_factory
    /\ session' = s.session
    /\ scoped_sessions' = s.scoped_sessions
    /\ engine' = s.engine
    /\ engines' = s.engines
    /\ n_factories' = s.n_factories
    /\ sessions' = s.sessions
    /\ rows' = s.rows
    /\ applied' = s.applied
    /\ listeners' = s.listeners
    /\ statements' = s.statements
    /\ ret' = s.ret

\* ----- return values
Returns(kind, val) == [kind |-> kind, val |-> val]
ReturnsNone == Returns("none", None)
ReturnsSelf == Returns("self", None)
Errors == {"TypeError", "AttributeError", "CompileError"}
Raises(err) == Returns(err, None)
Raised(r) == r.kind \in Errors
\* a value that may be None
ReturnsOpt(kind, val) == IF val = None THEN ReturnsNone ELSE Returns(kind, val)

\* ----- the persistence engine's primitives
\* sqlalchemy_create_engine(url): a new engine on the backend `url`; the
\* engines the manager opens are 1, 2, ... in the order it opens them
sqlalchemy_create_engine(s, url) ==
    [s EXCEPT !.engines = Append(@, url)]

\* an engine the caller opened itself on backend d is the engine -d
CallerEngines == {-d : d \in Descriptors}
UrlOf(s, e) == IF e < 0 THEN -e ELSE s.engines[e]

EmptyRegistry == [c \in Contexts |-> None]
NoFactory == [id |-> None, kind |-> "none", bind |-> None, registry |-> EmptyRegistry]

\* sessionmaker(bind=engine) / scoped_session(sessionmaker(bind=engine)):
\* a new factory object, stored in self.session_factory
sessionmaker(s, kind, bind) ==
    [s EXCEPT !.n_factories = @ + 1,
              !.session_factory = [id |-> s.n_factories + 1, kind |-> kind,
                                   bind |-> bind, registry |-> EmptyRegistry]]

\* the factory called: a new session bound to the factory's engine
NewSession(s) ==
    [s EXCEPT !.sessions =
        Append(@, [factory |-> s.session_factory.id,
                   bind |-> s.session_factory.bind,
                   closed |-> FALSE, new |-> {}, deleted |-> {}])]

\* Session.add / delete / commit / rollback / close; close releases the
\* session's resources and empties it, and the session is in use again (no
\* longer closed) as soon as something is staged on it
session_add(s, sid, r) ==
    [s EXCEPT !.sessions[sid].new = @ \cup {r},
              !.sessions[sid].deleted = @ \ {r},
              !.sessions[sid].closed = FALSE]

session_delete(s, sid, r) ==
    [s EXCEPT !.sessions[sid].deleted = @ \cup {r},
              !.sessions[sid].new = @ \ {r},
              !.sessions[sid].closed = FALSE]

BackendOf(s, sid) == UrlOf(s, s.sessions[sid].bind)

session_commit(s, sid) ==
    [s EXCEPT !.rows[BackendOf(s, sid)] =
                  (@ \cup s.sessions[sid].new) \ s.sessions[sid].deleted,
              !.sessions[sid].new = {},
              !.sessions[sid].deleted = {}]

session_rollback(s, sid) ==
    [s EXCEPT !.sessions[sid].new = {}, !.sessions[sid].deleted = {}]

session_close(s, sid) ==
    [s EXCEPT !.sessions[sid].new = {}, !.sessions[sid].deleted = {},
              !.sessions[sid].closed = TRUE]

\* scoped_session.__call__ in context c: the context's session, made on first use
scoped_call(s, c) ==
    IF s.session_factory.registry[c] # None
    THEN [s EXCEPT !.ret = Returns("session", s.session_factory.registry[c])]
    ELSE LET s1 == NewSession(s)
             sid == Len(s1.sessions)
         IN [s1 EXCEPT !.session_factory.registry[c] = sid,
                       !.ret = Returns("session", sid)]

\* scoped_session.remove in context c: close and forget the context's session
scoped_remove(s, c) ==
    IF s.session_factory.registry[c] # None
    THEN [session_close(s, s.session_factory.registry[c])
             EXCEPT !.session_factory.registry[c] = None]
    ELSE s

\* ===== utils.py: dialect-specific compilation and view DDL

\* dialect names: the five the rules name, the name of the engine's default
\* dialect, and one more dialect no rule names
Dialects == {"default", "firebird", "mssql", "mysql", "oracle", "postgresql", "sqlite"}
ViewNames == {"v1", "v2"}
Selectables == {"SELECT 1"}

\* the backend a descriptor names: descriptor 1 a PostgreSQL database,
\* descriptor 2 a SQLite database
DialectOf(url) == IF url = 1 THEN "postgresql" ELSE "sqlite"

\* a compilation's result: the text, as the pieces the format string joins,
\* or a compile error
Sql(text) == [kind |-> "sql", text |-> text]
CompileError == [kind |-> "CompileError", text |-> <<>>]

\* the dispatcher @compiles installs on a class: the rule registered for the
\* compiler's dialect, else the rule registered without a dialect ("default"),
\* else none
Dispatch(specs, dialect) ==
    IF dialect \in specs THEN dialect
    ELSE IF "default" \in specs THEN "default" ELSE "none"

\* compiler.process(selectable) and compiler.sql_compiler.process(selectable):
\* the statement compiler renders a selectable; the DDL compiler, which is
\* the compiler a DDL element is compiled with, has no rule for one
process(compiler, selectable) ==
    IF compiler = "sql" THEN Sql(<<selectable>>) ELSE CompileError

\* fmt % (name, body): the error of the argument, or the formatted text
Format(head, name, body) ==
    IF body.kind = "CompileError" THEN body
    ELSE Sql(<<head, name, "AS">> \o body.text)

TimestampDefaultExpression == [class |-> "TimestampDefaultExpression"]
CreateViewExpression(name, selectable) ==
    [class |-> "CreateViewExpression", name |-> name, selectable |-> selectable]
CreateMaterializedViewExpression(name, selectable) ==
    [class |-> "CreateMaterializedViewExpression", name |-> name,
     selectable |-> selectable]
DropViewExpression(name) == [class |-> "DropViewExpression", name |-> name]
DropMaterializedViewExpression(name) ==
    [class |-> "DropMaterializedViewExpression", name |-> name]

\* the dialects each class has a rule for
TimestampSpecs == {"mssql", "mysql", "oracle", "postgresql", "sqlite"}
ViewSpecs == {"default"}
MaterializedViewSpecs == {"default", "postgresql"}

\* the timestamp rules with a rule registered without a dialect
generate_timestamp_expression_default(rule) ==
    CASE rule = "mssql" -> Sql(<<"GETUTCDATE()">>)
      [] rule = "mysql" -> Sql(<<"UTC_TIMESTAMP()">>)
      [] rule = "oracle" -> Sql(<<"SYS_EXTRACT_UTC(SYSTIMESTAMP)">>)
      [] rule = "postgresql" -> Sql(<<"(NOW() AT TIME ZONE 'UTC')">>)
      [] OTHER -> Sql(<<"CURRENT_TIMESTAMP">>)

generate_timestamp_expression(rule) ==
    CASE rule = "mssql" -> Sql(<<"GETUTCDATE()">>)
      [] rule = "mysql" -> Sql(<<"UTC_TIMESTAMP()">>)
      [] rule = "oracle" -> Sql(<<"SYS_EXTRACT_UTC(SYSTIMESTAMP)">>)
      [] rule = "postgresql" -> Sql(<<"(NOW() AT TIME ZONE 'UTC')">>)
      [] rule = "sqlite" -> Sql(<<"CURRENT_TIMESTAMP">>)
      [] OTHER -> CompileError

generate_view_create_expression(element) ==
    Format("CREATE OR REPLACE VIEW", element.name,
           process("sql", element.selectable))

generate_mview_create_expression(rule, element) ==
    IF rule = "postgresql"
    THEN Format("CREATE OR REPLACE MATERIALIZED VIEW", element.name,
                process("ddl", element.selectable))
    ELSE Format("CREATE OR REPLACE VIEW", element.name,
                process("ddl", element.selectable))

generate_view_drop_expression(element) ==
    Sql(<<"DROP VIEW IF EXISTS", element.name>>)

generate_mview_drop_expression(rule, element) ==
    IF rule = "postgresql"
    THEN Sql(<<"DROP MATERIALIZED VIEW IF EXISTS", element.name>>)
    ELSE Sql(<<"DROP VIEW IF EXISTS", element.name>>)

\* element.compile(dialect=dialect): the class's dispatcher picks the rule
compile(element, dialect) ==
    CASE element.class = "TimestampDefaultExpression" ->
           generate_timestamp_expression(Dispatch(TimestampSpecs, dialect))
      [] element.class = "CreateViewExpression" ->
           generate_view_create_expression(element)
      [] element.class = "CreateMaterializedViewExpression" ->
           generate_mview_create_expression(
               Dispatch(MaterializedViewSpecs, dialect), element)
      [] element.class = "DropViewExpression" ->
           generate_view_drop_expression(element)
      [] element.class = "DropMaterializedViewExpression" ->
           generate_mview_drop_expression(
               Dispatch(MaterializedViewSpecs, dialect), element)

\* the elements a caller can build
CreateElements ==
    {CreateViewExpression(n, q) : n \in ViewNames, q \in Selectables}
    \cup {CreateMaterializedViewExpression(n, q) : n \in ViewNames, q \in Selectables}
DropElements ==
    {DropViewExpression(n) : n \in ViewNames}
    \cup {DropMaterializedViewExpression(n) : n \in ViewNames}
Elements == {TimestampDefaultExpression} \cup CreateElements \cup DropElements

\* listen(metadata, event, element): the listeners of a metadata container,
\* in the order of their registration
NoListeners == [after_create |-> <<>>, before_drop |-> <<>>]

\* create_view(name, selectable, metadata, materialized)
create_view(s, name, selectable, md, materialized) ==
    [s EXCEPT
       !.listeners[md].after_create =
           Append(@, IF materialized
                     THEN CreateMaterializedViewExpression(name, selectable)
                     ELSE CreateViewExpression(name, selectable)),
       !.listeners[md].before_drop =
           Append(@, IF materialized
                     THEN DropMaterializedViewExpression(name)
                     ELSE DropViewExpression(name)),
       !.ret = Returns("table", None)]

\* engine.execute(element): compiled under the engine's dialect, then run
execute(s, e, element) ==
    LET c == compile(element, DialectOf(UrlOf(s, e)))
    IN IF c.kind = "CompileError"
       THEN [s EXCEPT !.ret = Raises("CompileError")]
       ELSE [s EXCEPT !.statements = Append(@, [engine |-> e, text |-> c.text])]

\* an event of the metadata: its listeners run in order, up to the first
\* that raises
RECURSIVE dispatch(_, _, _)
dispatch(s, e, elements) ==
    IF elements = <<>> THEN s
    ELSE LET s1 == execute(s, e, Head(elements))
         IN IF Raised(s1.ret) THEN s1 ELSE dispatch(s1, e, Tail(elements))

\* MetaData.create_all(engine): the tables are created through the engine,
\* then the after_create listeners run
create_all(s, md, e) ==
    LET s1 == [s EXCEPT !.applied = Append(@, <<md, e>>),
                        !.statements = Append(@, [engine |-> e,
                                                  text |-> <<"CREATE TABLE">>]),
                        !.ret = ReturnsNone]
    IN dispatch(s1, e, s1.listeners[md].after_create)

\* MetaData.drop_all(engine): the before_drop listeners run, then the tables
\* are dropped
drop_all(s, md, e) ==
    LET s1 == dispatch([s EXCEPT !.ret = ReturnsNone], e,
                       s.listeners[md].before_drop)
    IN IF Raised(s1.ret) THEN s1
       ELSE [s1 EXCEPT !.statements = Append(@, [engine |-> e,
                                                 text |-> <<"DROP TABLE">>])]

\* ===== DBManager's methods, each a function of the program state

\* create_engine with the stored descriptor taking precedence over the argument
create_engine_stored_first(s, conn, persist) ==
    LET s1 == IF conn # None /\ s.conn_string = None
              THEN [s EXCEPT !.conn_string = conn] ELSE s
    IN IF s1.conn_string # None
       THEN LET s2 == sqlalchemy_create_engine(s1, s1.conn_string)
                e == Len(s2.engines)
                s3 == IF persist THEN [s2 EXCEPT !.engine = e] ELSE s2
            IN [s3 EXCEPT !.ret = Returns("engine", e)]
       ELSE [s1 EXCEPT !.ret = ReturnsNone]

\* create_engine that stores an explicit descriptor only when it persists
create_engine_local(s, conn, persist) ==
    LET s1 == IF conn # None /\ persist THEN [s EXCEPT !.conn_string = conn] ELSE s
        url == IF conn # None THEN conn ELSE s.conn_string
    IN IF url # None
       THEN LET s2 == sqlalchemy_create_engine(s1, url)
                e == Len(s2.engines)
                s3 == IF persist THEN [s2 EXCEPT !.engine = e] ELSE s2
            IN [s3 EXCEPT !.ret = Returns("engine", e)]
       ELSE [s1 EXCEPT !.ret = ReturnsNone]

\* create_engine(conn_string, persist)
create_engine(s, conn, persist) ==
    LET s1 == IF conn # None THEN [s EXCEPT !.conn_string = conn] ELSE s
    IN IF s1.conn_string # None
       THEN LET s2 == sqlalchemy_create_engine(s1, s1.conn_string)
                e == Len(s2.engines)
                s3 == IF persist THEN [s2 EXCEPT !.engine = e] ELSE s2
            IN [s3 EXCEPT !.ret = Returns("engine", e)]
       ELSE [s1 EXCEPT !.ret = ReturnsNone]

\* (self.session_factory)(): calling None raises TypeError
call_session_factory(s) ==
    IF s.session_factory.id = None
    THEN [s EXCEPT !.ret = Raises("TypeError")]
    ELSE LET s1 == NewSession(s)
         IN [s1 EXCEPT !.ret = Returns("session", Len(s1.sessions))]

\* create_session without its scoped branch: a session is built, and with
\* persist stored, whatever the mode
create_session_unscoped(s, persist) ==
    IF persist
    THEN IF s.session = None
         THEN LET s1 == call_session_factory(s)
              IN IF Raised(s1.ret) THEN s1
                 ELSE [s1 EXCEPT !.session = s1.ret.val]
         ELSE [s EXCEPT !.ret = Returns("session", s.session)]
    ELSE call_session_factory(s)

\* create_session with persist=false served from the persisted session
create_session_shared(s, persist) ==
    IF s.scoped_sessions
    THEN [s EXCEPT !.ret = ReturnsOpt("factory", s.session_factory.id)]
    ELSE IF s.session = None
         THEN LET s1 == call_session_factory(s)
              IN IF Raised(s1.ret) \/ ~persist THEN s1
                 ELSE [s1 EXCEPT !.session = s1.ret.val]
         ELSE [s EXCEPT !.ret = Returns("session", s.session)]

\* create_session that reuses the persisted session only when the current
\* factory produced it
create_session_current(s, persist) ==
    IF s.scoped_sessions
    THEN [s EXCEPT !.ret = ReturnsOpt("factory", s.session_factory.id)]
    ELSE IF persist
         THEN IF s.session = None
                 \/ s.sessions[s.session].factory # s.session_factory.id
              THEN LET s1 == call_session_factory(s)
                   IN IF Raised(s1.ret) THEN s1
                      ELSE [s1 EXCEPT !.session = s1.ret.val]
              ELSE [s EXCEPT !.ret = Returns("session", s.session)]
         ELSE call_session_factory(s)

\* create_session(persist)
create_session(s, persist) ==
    IF s.scoped_sessions
    THEN [s EXCEPT !.ret = ReturnsOpt("factory", s.session_factory.id)]
    ELSE IF persist
         THEN IF s.session = None
              THEN LET s1 == call_session_factory(s)
                   IN IF Raised(s1.ret) THEN s1
                      ELSE [s1 EXCEPT !.session = s1.ret.val]
              ELSE [s EXCEPT !.ret = Returns("session", s.session)]
         ELSE call_session_factory(s)

\* close_session that closes the persisted session and keeps the field set
close_session_keeps(s, sess, c) ==
    LET s1 == IF sess # None
              THEN session_close(s, sess)
              ELSE IF s.scoped_sessions /\ s.session_factory.id # None
                   THEN scoped_remove(s, c)
                   ELSE IF s.session # None
                        THEN session_close(s, s.session)
                        ELSE s
    IN [s1 EXCEPT !.ret = ReturnsNone]

\* close_session that clears the field after closing an explicit session too
close_session_clears(s, sess, c) ==
    LET s1 == IF sess # None
              THEN [session_close(s, sess) EXCEPT !.session = None]
              ELSE IF s.scoped_sessions /\ s.session_factory.id # None
                   THEN scoped_remove(s, c)
                   ELSE IF s.session # None
                        THEN [session_close(s, s.session) EXCEPT !.session = None]
                        ELSE s
    IN [s1 EXCEPT !.ret = ReturnsNone]

\* close_session without its scoped branch
close_session_unscoped(s, sess, c) ==
    LET s1 == IF sess # None
              THEN session_close(s, sess)
              ELSE IF s.session # None
                   THEN [session_close(s, s.session) EXCEPT !.session = None]
                   ELSE s
    IN [s1 EXCEPT !.ret = ReturnsNone]

\* close_session(session), called from context c
close_session(s, sess, c) ==
    LET s1 == IF sess # None
              THEN session_close(s, sess)
              ELSE IF s.scoped_sessions /\ s.session_factory.id # None
                   THEN scoped_remove(s, c)
                   ELSE IF s.session # None
                        THEN [session_close(s, s.session) EXCEPT !.session = None]
                        ELSE s
    IN [s1 EXCEPT !.ret = ReturnsNone]

\* bootstrap that stores its argument even when it is None
bootstrap_overwrites(s, eng) ==
    LET s1 == [s EXCEPT !.engine = eng]
    IN IF s1.engine # None /\ s1.metadata # None
       THEN create_all(s1, s1.metadata, s1.engine)
       ELSE [s1 EXCEPT !.ret = ReturnsNone]

\* bootstrap that tests the engine it held before taking its argument
bootstrap_stale_guard(s, eng) ==
    LET s1 == IF eng # None THEN [s EXCEPT !.engine = eng] ELSE s
    IN IF s.engine # None /\ s1.metadata # None
       THEN create_all(s1, s1.metadata, s1.engine)
       ELSE [s1 EXCEPT !.ret = ReturnsNone]

\* bootstrap(engine); an error of a listener of the metadata reaches the caller
bootstrap(s, eng) ==
    LET s1 == IF eng # None THEN [s EXCEPT !.engine = eng] ELSE s
    IN IF s1.engine # None /\ s1.metadata # None
       THEN create_all(s1, s1.metadata, s1.engine)
       ELSE [s1 EXCEPT !.ret = ReturnsNone]

\* the factory variant chosen by the argument alone
FactoryKind_argument(scoped, flag) == IF scoped THEN "scoped" ELSE "plain"

\* the factory variant initialize builds: "if scoped or self.scoped_sessions"
FactoryKind(scoped, flag) == IF scoped \/ flag THEN "scoped" ELSE "plain"

\* initialize that builds the factory and leaves self.scoped_sessions alone
initialize_noflag(s, conn, md, boot, scoped, create) ==
    LET s1 == IF conn # None THEN [s EXCEPT !.conn_string = conn] ELSE s
        s2 == create_engine(s1, None, TRUE)
        s3 == IF md # None THEN [s2 EXCEPT !.metadata = md] ELSE s2
        s4 == IF boot THEN bootstrap(s3, None) ELSE s3
        kind == FactoryKind(scoped, s4.scoped_sessions)
        s5 == sessionmaker(s4, kind, s4.engine)
        s7 == IF create /\ ~s5.scoped_sessions THEN create_session(s5, TRUE) ELSE s5
        s8 == IF s3.engine # None THEN s7 ELSE s3
    IN IF s3.engine # None /\ boot /\ Raised(s4.ret) THEN s4
       ELSE [s8 EXCEPT !.ret = ReturnsSelf]

\* initialize that bootstraps before it captures the metadata of the call
initialize_bootstrap_early(s, conn, md, boot, scoped, create) ==
    LET s1 == IF conn # None THEN [s EXCEPT !.conn_string = conn] ELSE s
        s2 == create_engine(s1, None, TRUE)
        s3 == IF boot THEN bootstrap(s2, None) ELSE s2
        s4 == IF md # None THEN [s3 EXCEPT !.metadata = md] ELSE s3
        kind == FactoryKind(scoped, s4.scoped_sessions)
        s5 == sessionmaker(s4, kind, s4.engine)
        s6 == [s5 EXCEPT !.scoped_sessions = (kind = "scoped")]
        s7 == IF create /\ ~s6.scoped_sessions THEN create_session(s6, TRUE) ELSE s6
        s8 == IF s2.engine # None THEN s7
              ELSE IF md # None THEN [s2 EXCEPT !.metadata = md] ELSE s2
    IN IF s2.engine # None /\ boot /\ Raised(s3.ret) THEN s3
       ELSE [s8 EXCEPT !.ret = ReturnsSelf]

\* initialize(conn_string, metadata, bootstrap, scoped, create_session); an
\* error of bootstrap ends the call where it is
initialize(s, conn, md, boot, scoped, create) ==
    LET s1 == IF conn # None THEN [s EXCEPT !.conn_string = conn] ELSE s
        s2 == create_engine(s1, None, TRUE)
        s3 == IF md # None THEN [s2 EXCEPT !.metadata = md] ELSE s2
        s4 == IF boot THEN bootstrap(s3, None) ELSE s3
        kind == FactoryKind(scoped, s4.scoped_sessions)
        s5 == sessionmaker(s4, kind, s4.engine)
        s6 == [s5 EXCEPT !.scoped_sessions = (kind = "scoped")]
        s7 == IF create /\ ~s6.scoped_sessions THEN create_session(s6, TRUE) ELSE s6
        s8 == IF s3.engine # None THEN s7 ELSE s3
    IN IF s3.engine # None /\ boot /\ Raised(s4.ret) THEN s4
       ELSE [s8 EXCEPT !.ret = ReturnsSelf]

\* the declared attributes of the queried model (models.py, TableMixin)
ModelAttrs == {"id", "created_at"}

\* query as its docstring describes it: None when a filter cannot be applied
query_swallows(s, kwargs) ==
    IF s.session = None
    THEN [s EXCEPT !.ret = Raises("AttributeError")]
    ELSE IF \E k \in kwargs : k \notin ModelAttrs
         THEN [s EXCEPT !.ret = ReturnsNone]
         ELSE [s EXCEPT !.ret = Returns("query", s.session)]

\* query that falls back on a session of the factory when none is persisted
query_fallback(s, kwargs) ==
    IF s.session = None /\ s.session_factory.id = None
    THEN [s EXCEPT !.ret = Raises("AttributeError")]
    ELSE IF \E k \in kwargs : k \notin ModelAttrs
         THEN [s EXCEPT !.ret = Raises("AttributeError")]
         ELSE [s EXCEPT !.ret = Returns("query", s.session)]

\* query(model, **kwargs): getattr(model, arg) raises on an undeclared key
query(s, kwargs) ==
    IF s.session = None
    THEN [s EXCEPT !.ret = Raises("AttributeError")]
    ELSE IF \E k \in kwargs : k \notin ModelAttrs
         THEN [s EXCEPT !.ret = Raises("AttributeError")]
         ELSE [s EXCEPT !.ret = Returns("query", s.session)]

\* the explicit session ignored: always self.session
Resolve_persisted(s, sess) == s.session

\* "if session is None: session = self.session"
Resolve(s, sess) == IF sess = None THEN s.session ELSE sess

\* commit(session)
commit(s, sess) ==
    IF Resolve(s, sess) = None
    THEN [s EXCEPT !.ret = Raises("AttributeError")]
    ELSE [session_commit(s, Resolve(s, sess)) EXCEPT !.ret = ReturnsSelf]

\* rollback(session)
rollback(s, sess) ==
    IF Resolve(s, sess) = None
    THEN [s EXCEPT !.ret = Raises("AttributeError")]
    ELSE [session_rollback(s, Resolve(s, sess)) EXCEPT !.ret = ReturnsSelf]

\* add that commits before it stages
add_commit_first(s, r, sess, com) ==
    IF Resolve(s, sess) = None
    THEN [s EXCEPT !.ret = Raises("AttributeError")]
    ELSE LET s1 == IF com THEN commit(s, Resolve(s, sess)) ELSE s
             s2 == session_add(s1, Resolve(s, sess), r)
         IN [s2 EXCEPT !.ret = ReturnsSelf]

\* add(record, session, commit)
add(s, r, sess, com) ==
    IF Resolve(s, sess) = None
    THEN [s EXCEPT !.ret = Raises("AttributeError")]
    ELSE LET s1 == session_add(s, Resolve(s, sess), r)
             s2 == IF com THEN commit(s1, Resolve(s, sess)) ELSE s1
         IN [s2 EXCEPT !.ret = ReturnsSelf]

\* delete(record, session, commit)
delete(s, r, sess, com) ==
    IF Resolve(s, sess) = None
    THEN [s EXCEPT !.ret = Raises("AttributeError")]
    ELSE LET s1 == session_delete(s, Resolve(s, sess), r)
             s2 == IF com THEN commit(s1, Resolve(s, sess)) ELSE s1
         IN [s2 EXCEPT !.ret = ReturnsSelf]

\* ===== the state machine

\* the heaps stay within the model's bounds
Fits(s) ==
    /\ Len(s.engines) <= MaxEngines
    /\ s.n_factories <= MaxFactories
    /\ Len(s.sessions) <= MaxSessions

\* a session the caller built itself, on an engine of its own
CallerSession == [factory |-> None, bind |-> -1, closed |-> FALSE,
                  new |-> {}, deleted |-> {}]

\* __init__(conn_string, metadata, session_factory, session, scoped); the
\* manager is built without a session factory, with or without a session
Construct(conns, mds, given) ==
    /\ conn_string \in conns
    /\ metadata \in mds
    /\ session_factory = NoFactory
    /\ scoped_sessions \in BOOLEAN
    /\ engine = None
    /\ engines = <<>>
    /\ n_factories = 0
    /\ \E g \in given :
        IF g THEN session = 1 /\ sessions = <<CallerSession>>
             ELSE session = None /\ sessions = <<>>
    /\ rows = [d \in Descriptors |-> {}]
    /\ applied = <<>>
    /\ listeners = [m \in Metadatas |-> NoListeners]
    /\ statements = <<>>
    /\ ret = ReturnsNone
    /\ op = [name |-> "__init__"]

\* the sessions a caller can hold: every session built so far
Held == 1..Len(sessions)

\* ----- one action per method; the sets are the arguments the caller may pass
CreateEngineWith(conns) ==
    \E conn \in conns, persist \in BOOLEAN :
        /\ Fits(create_engine(Self, conn, persist))
        /\ Store(create_engine(Self, conn, persist))
        /\ op' = [name |-> "create_engine", conn |-> conn, persist |-> persist]

CreateSession ==
    \E persist \in BOOLEAN, c \in Contexts :
        /\ Fits(create_session(Self, persist))
        /\ Store(create_session(Self, persist))
        /\ op' = [name |-> "create_session", persist |-> persist, ctx |-> c]

\* the caller invokes the scoped factory create_session has just returned
CallFactory ==
    \E c \in Contexts :
        /\ ret.kind = "factory"
        /\ Fits(scoped_call(Self, c))
        /\ Store(scoped_call(Self, c))
        /\ op' = [name |-> "factory_call", ctx |-> c]

CloseSession ==
    \E sess \in Held \cup {None}, c \in Contexts :
        /\ Store(close_session(Self, sess, c))
        /\ op' = [name |-> "close_session", session |-> sess, ctx |-> c]

BootstrapWith(engs) ==
    \E eng \in engs :
        /\ Store(bootstrap(Self, eng))
        /\ op' = [name |-> "bootstrap", engine |-> eng]

InitializeWith(conns, mds, boots) ==
    \E conn \in conns, md \in mds, boot \in boots,
       scoped \in BOOLEAN, create \in BOOLEAN :
        /\ Fits(initialize(Self, conn, md, boot, scoped, create))
        /\ Store(initialize(Self, conn, md, boot, scoped, create))
        /\ op' = [name |-> "initialize", conn |-> conn, metadata |-> md,
                  bootstrap |-> boot, scoped |-> scoped, create_session |-> create]

Query ==
    \E kwargs \in SUBSET FilterKeys :
        /\ Store(query(Self, kwargs))
        /\ op' = [name |-> "query", kwargs |-> kwargs]

AddWith(given) ==
    \E r \in Records, sess \in given, com \in BOOLEAN :
        /\ Store(add(Self, r, sess, com))
        /\ op' = [name |-> "add", record |-> r, session |-> sess, commit |-> com]

DeleteWith(given) ==
    \E r \in Records, sess \in given, com \in BOOLEAN :
        /\ Store(delete(Self, r, sess, com))
        /\ op' = [name |-> "delete", record |-> r, session |-> sess, commit |-> com]

CommitWith(given) ==
    \E sess \in given :
        /\ Store(commit(Self, sess))
        /\ op' = [name |-> "commit", session |-> sess]

RollbackWith(given) ==
    \E sess \in given :
        /\ Store(rollback(Self, sess))
        /\ op' = [name |-> "rollback", session |-> sess]

\* create_view on a metadata container that has room for one more view
CreateViewWith(names) ==
    \E name \in names, q \in Selectables, md \in Metadatas,
       materialized \in BOOLEAN :
        /\ Len(listeners[md].after_create) < MaxViews
        /\ Store(create_view(Self, name, q, md, materialized))
        /\ op' = [name |-> "create_view", view |-> name, metadata |-> md,
                  materialized |-> materialized]

\* the caller drops the schema: metadata.drop_all(engine)
DropAll ==
    \E md \in Metadatas, e \in (1..Len(engines)) \cup CallerEngines :
        /\ Store(drop_all(Self, md, e))
        /\ op' = [name |-> "drop_all", metadata |-> md, engine |-> e]

\* an element compiled for a dialect: str(element.compile(dialect=...))
Compile ==
    \E element \in Elements, dialect \in Dialects :
        LET c == compile(element, dialect)
        IN /\ Store([Self EXCEPT
                       !.statements = IF c.kind = "sql"
                                      THEN <<[engine |-> None, text |-> c.text]>>
                                      ELSE <<>>,
                       !.ret = IF c.kind = "sql" THEN Returns("sql", None)
                               ELSE Raises("CompileError")])
           /\ op' = [name |-> "compile", element |-> element, dialect |-> dialect]

\* ----- every method with every argument
\* bootstrap with no engine, with an engine the manager opened earlier, or with
\* an engine the caller has opened itself
CreateEngine == CreateEngineWith(Descriptors \cup {None})
CreateView == CreateViewWith(ViewNames)
Bootstrap == BootstrapWith((1..Len(engines)) \cup CallerEngines \cup {None})
Initialize == InitializeWith(Descriptors \cup {None}, Metadatas \cup {None}, BOOLEAN)
Add == AddWith(Held \cup {None})
Delete == DeleteWith(Held \cup {None})
Commit == CommitWith(Held \cup {None})
Rollback == RollbackWith(Held \cup {None})

Init == Construct(Descriptors \cup {None}, Metadatas \cup {None}, BOOLEAN)

Next ==
    \/ CreateEngine
    \/ CreateSession
    \/ CallFactory
    \/ CloseSession
    \/ Bootstrap
    \/ Initialize
    \/ Query
    \/ Add
    \/ Delete
    \/ Commit
    \/ Rollback
    \/ CreateView
    \/ DropAll
    \/ Compile

SpecFull == Init /\ [][Next]_vars

\* ----- the session lifecycle: one backend, no schema, no unit of work
InitSessions == Construct({None, 1}, {None}, BOOLEAN)
InitializeStored == InitializeWith({None}, {None}, {FALSE})

NextSessions ==
    \/ InitializeStored
    \/ CreateSession
    \/ CallFactory
    \/ CloseSession

SpecSessions == InitSessions /\ [][NextSessions]_vars

\* ----- engines and schema: descriptors, engines, metadata, bootstrap
InitEngines == Construct(Descriptors \cup {None}, Metadatas \cup {None}, {FALSE})

NextEngines ==
    \/ CreateEngine
    \/ Bootstrap
    \/ Initialize

SpecEngines == InitEngines /\ [][NextEngines]_vars

\* ----- the unit of work: sessions of one backend and what is staged on them
InitStored == Construct({None, 1}, {None}, {FALSE})

NextUnitOfWork ==
    \/ InitializeStored
    \/ CreateSession
    \/ CallFactory
    \/ Query
    \/ Add
    \/ Delete
    \/ Commit
    \/ Rollback

SpecUnitOfWork == InitStored /\ [][NextUnitOfWork]_vars

\* ----- every method of the manager, on the stored descriptor and the
\* ----- manager's own session
CreateEngineStored == CreateEngineWith({None})
BootstrapStored == BootstrapWith({None})
AddPersisted == AddWith({None})
DeletePersisted == DeleteWith({None})
CommitPersisted == CommitWith({None})
RollbackPersisted == RollbackWith({None})

NextMethods ==
    \/ CreateEngineStored
    \/ BootstrapStored
    \/ InitializeStored
    \/ CreateSession
    \/ CallFactory
    \/ CloseSession
    \/ Query
    \/ AddPersisted
    \/ DeletePersisted
    \/ CommitPersisted
    \/ RollbackPersisted

Spec == InitStored /\ [][NextMethods]_vars

\* ----- compilation: every element under every dialect
NextCompile == Compile

SpecCompile == InitStored /\ [][NextCompile]_vars

\* ----- re-initialization: initialize with every argument, and the sessions
NextReinitialize ==
    \/ Initialize
    \/ CreateSession
    \/ CloseSession

SpecReinitialize == InitStored /\ [][NextReinitialize]_vars

\* ----- initialize with every argument, on metadata that may carry views
CreateOneView == CreateViewWith({"v1"})

NextInitialize ==
    \/ CreateOneView
    \/ Initialize

SpecInitialize == InitStored /\ [][NextInitialize]_vars

\* ----- views: view registration, schema create and drop
InitViews == Construct(Descriptors, Metadatas, {FALSE})

NextViews ==
    \/ CreateView
    \/ CreateEngineStored
    \/ Bootstrap
    \/ DropAll

SpecViews == InitViews /\ [][NextViews]_vars

\* ===== the claims

Plain == ~scoped_sessions /\ session_factory.id # None
Scoped == scoped_sessions /\ session_factory.id # None
\* the manager's fields other than the session and the factory
OwnFields == <<conn_string, metadata, engine, scoped_sessions>>
\* the manager was built with a session of the caller's
BuiltWithSession == Len(sessions) >= 1 /\ sessions[1].factory = None
TxMethods == {"add", "delete", "commit", "rollback"}

\* C1: in plain mode with a factory, create_session(persist=true) returns the
\* eager session initialize(create_session=true) has persisted, returns the
\* instance the previous create_session(persist=true) returned, and right
\* after a no-argument close_session returns a newly built session, stored on
\* the manager, that is none of the earlier sessions (the closed one included).
C1_PersistedSessionReused ==
    [][(op'.name = "create_session" /\ op'.persist /\ Plain) =>
         /\ (op.name = "initialize" /\ op.create_session /\ ~op.scoped
               => session # None /\ ret' = Returns("session", session))
         /\ (op.name = "create_session" /\ op.persist /\ ret.kind = "session"
               => ret' = ret)
         /\ (op.name = "close_session" /\ op.session = None
               => /\ ret' = Returns("session", Len(sessions) + 1)
                  /\ session' = ret'.val
                  /\ ~sessions'[ret'.val].closed)]_vars

C1_Witness ==
    /\ op.name = "create_session" /\ op.persist /\ Plain
    /\ ret = Returns("session", session)
    /\ \E i \in Held : /\ i # session
                       /\ sessions[i].closed
                       /\ sessions[i].factory = session_factory.id

\* C2 as stated: in scoped mode two create_session calls from two distinct
\* contexts return two distinct instances.
C2_DistinctContextsDistinctReturns ==
    [][(/\ Scoped
        /\ op.name = "create_session" /\ op'.name = "create_session"
        /\ op.ctx # op'.ctx) => ret' # ret]_vars

\* C2 amended: in scoped mode create_session returns the manager's scoped
\* factory itself and builds nothing, in every context; the factory invoked in
\* a context returns the session registered for that context (the same one on
\* every call of that context) and that session is the session of no other
\* context.
C2_ScopedFactoryPerContext ==
    [][/\ (op'.name = "create_session" /\ Scoped)
            => ret' = Returns("factory", session_factory.id) /\ sessions' = sessions
       /\ (op'.name = "factory_call" /\ ret.kind = "factory")
            => /\ ret'.kind = "session"
               /\ ret'.val = session_factory'.registry[op'.ctx]
               /\ session_factory.registry[op'.ctx] # None
                    => ret'.val = session_factory.registry[op'.ctx]
               /\ \A c \in Contexts \ {op'.ctx} :
                    session_factory'.registry[c] # ret'.val]_vars

C2_Witness ==
    /\ op.name = "factory_call" /\ Scoped
    /\ ret = Returns("session", session_factory.registry[op.ctx])
    /\ \A c \in Contexts : session_factory.registry[c] # None
    /\ session_factory.registry["t1"] # session_factory.registry["t2"]

\* C3: whenever the manager has no session factory, create_session raises.
C3_NoFactoryRaises ==
    (op.name = "create_session" /\ session_factory.id = None) => Raised(ret)

\* the session a unit-of-work method resolves in the step being taken
Target == IF op'.session # None THEN op'.session ELSE session
Pending(ss, i) == ss[i].new \cup ss[i].deleted

\* C4: add, delete, commit and rollback raise and change no session and no
\* backend when neither an explicit nor a persisted session exists; otherwise
\* they return the manager, act on the explicit session if given and on the
\* persisted one if not, and leave every other session as it was.
C4_ResolvesExplicitThenPersisted ==
    [][op'.name \in TxMethods =>
         IF op'.session = None /\ session = None
         THEN Raised(ret') /\ sessions' = sessions /\ rows' = rows
         ELSE /\ ret' = ReturnsSelf
              /\ session' = session
              /\ \A i \in Held \ {Target} : sessions'[i] = sessions[i]
              /\ op'.name = "add" /\ ~op'.commit
                   => op'.record \in sessions'[Target].new
              /\ op'.name = "delete" /\ ~op'.commit
                   => op'.record \in sessions'[Target].deleted
              /\ op'.name = "add" /\ op'.commit
                   => op'.record \in rows'[BackendOf(Self, Target)]
              /\ op'.name = "delete" /\ op'.commit
                   => op'.record \notin rows'[BackendOf(Self, Target)]
              /\ op'.name = "commit"
                   => rows'[BackendOf(Self, Target)] =
                        (rows[BackendOf(Self, Target)] \cup sessions[Target].new)
                            \ sessions[Target].deleted
              /\ op'.name = "rollback" => rows' = rows
              /\ (op'.name \in {"commit", "rollback"} \/ op'.commit)
                   => Pending(sessions', Target) = {}]_vars

C4_Witness ==
    /\ op.name = "add" /\ ~op.commit /\ ret = ReturnsSelf
    /\ session # None /\ op.session # None /\ op.session # session
    /\ op.record \in sessions[op.session].new
    /\ op.record \notin sessions[session].new

\* the session the last unit-of-work call resolved (the call leaves
\* self.session as it was)
Resolved == IF op.session # None THEN op.session ELSE session

\* C5: when add(record, commit=true) has returned, the record is among the
\* committed records of the backend of the session it resolved, where every
\* session of that backend finds it, and nothing is left pending on that
\* session: the record was staged before the commit.
C5_AddCommitIsVisible ==
    (op.name = "add" /\ op.commit /\ ret = ReturnsSelf) =>
        /\ op.record \in rows[BackendOf(Self, Resolved)]
        /\ Pending(sessions, Resolved) = {}

C5_Witness ==
    /\ op.name = "add" /\ op.commit /\ ret = ReturnsSelf
    /\ op.record \in rows[BackendOf(Self, Resolved)]
    /\ \E i \in Held : i # Resolved /\ BackendOf(Self, i) = BackendOf(Self, Resolved)

\* C6: close_session with an explicit session closes that session, changes no
\* other session and leaves every field of the manager as it was, the session
\* field and the factory with its registry included.
C6_ExplicitCloseKeepsManager ==
    [][(op'.name = "close_session" /\ op'.session # None) =>
         /\ UNCHANGED <<OwnFields, session, session_factory>>
         /\ sessions'[op'.session].closed
         /\ \A i \in Held \ {op'.session} : sessions'[i] = sessions[i]]_vars

C6_Witness ==
    /\ op.name = "close_session" /\ op.session # None
    /\ session = op.session
    /\ sessions[session].closed

\* C7: with a scoped factory, close_session without argument closes and
\* forgets the session of the calling context only: the sessions registered
\* for the other contexts, every other session and the manager's fields are
\* unchanged; the next factory call of that context builds a new, open session.
C7_ScopedCloseIsPerContext ==
    [][/\ (op'.name = "close_session" /\ op'.session = None /\ Scoped)
            => /\ UNCHANGED <<OwnFields, session>>
               /\ session_factory' =
                    [session_factory EXCEPT !.registry[op'.ctx] = None]
               /\ \A i \in Held \ {session_factory.registry[op'.ctx]} :
                    sessions'[i] = sessions[i]
               /\ session_factory.registry[op'.ctx] # None
                    => sessions'[session_factory.registry[op'.ctx]].closed
       /\ (/\ op'.name = "factory_call" /\ ret.kind = "factory"
           /\ session_factory.registry[op'.ctx] = None)
            => /\ ret' = Returns("session", Len(sessions) + 1)
               /\ ~sessions'[ret'.val].closed]_vars

C7_Witness ==
    /\ op.name = "close_session" /\ op.session = None /\ Scoped
    /\ session_factory.registry[op.ctx] = None
    /\ \E i \in Held : sessions[i].closed /\ sessions[i].factory = session_factory.id
    /\ \E c \in Contexts \ {op.ctx} :
         /\ session_factory.registry[c] # None
         /\ ~sessions[session_factory.registry[c]].closed

\* C8 as stated: a manager built without a session has no persisted session
\* whenever it is in scoped mode.
C8_ScopedSessionUnset ==
    (~BuiltWithSession /\ scoped_sessions) => session = None

\* C8 amended: a manager built without a session never holds a session of its
\* scoped factory: in scoped mode the session field is unset, or still holds
\* the session a previous, plain factory persisted before initialize switched
\* the manager to scoped mode.
C8_NoScopedSessionPersisted ==
    (~BuiltWithSession /\ scoped_sessions /\ session # None)
        => sessions[session].factory # session_factory.id

C8_Witness ==
    /\ ~BuiltWithSession /\ Scoped
    /\ op.name = "factory_call"
    /\ session = None
    /\ Len(sessions) >= 1

\* C9: after an initialize call that finds an engine the manager holds a plain
\* or a scoped factory and self.scoped_sessions is true exactly for the scoped
\* one; no call other than initialize replaces the factory or changes the flag.
C9_FactoryVariantFixed ==
    [][/\ (op'.name = "initialize" /\ engine' # None)
            => /\ session_factory'.id # None
               /\ session_factory'.bind = engine'
               /\ session_factory'.kind \in {"plain", "scoped"}
               /\ scoped_sessions' <=> (session_factory'.kind = "scoped")
       /\ op'.name # "initialize"
            => /\ scoped_sessions' = scoped_sessions
               /\ session_factory'.id = session_factory.id
               /\ session_factory'.kind = session_factory.kind
               /\ session_factory'.bind = session_factory.bind]_vars

C9_Witness ==
    /\ op.name \in TxMethods /\ ret = ReturnsSelf
    /\ n_factories = 2
    /\ session_factory.id = 2 /\ session_factory.kind = "plain"
    /\ ~scoped_sessions

\* C10 as stated: while no create_engine call has succeeded (an initialize
\* call with a descriptor makes one succeed), the engine is unset.
C10_EngineUnsetUntilCreated ==
    Len(engines) = 0 => engine = None

\* C10 amended: the engine changes only when create_engine opens one and
\* persists it (called directly or by initialize) or when bootstrap is given an
\* engine; so while no create_engine call has succeeded the engine is unset
\* or is the engine the caller gave to bootstrap.
C10_EngineSetters ==
    [][/\ engine' # engine
            => \/ /\ op'.name \in {"create_engine", "initialize"}
                  /\ Len(engines') = Len(engines) + 1
                  /\ engine' = Len(engines')
               \/ /\ op'.name = "bootstrap"
                  /\ op'.engine # None
                  /\ engine' = op'.engine
       /\ (Len(engines') = 0 /\ engine' # None) => engine' \in CallerEngines]_vars

C10_Witness ==
    /\ op.name = "bootstrap" /\ op.engine \in CallerEngines
    /\ engine = op.engine
    /\ Len(engines) = 0

\* C11: create_engine returns a new engine on the explicit descriptor, or
\* without one on the stored descriptor; with neither it returns None, raises
\* nothing and leaves the stored engine alone; the stored engine becomes the
\* new engine when persist is true and is unchanged when it is false.
C11_CreateEngineContract ==
    [][op'.name = "create_engine" =>
         LET url == IF op'.conn # None THEN op'.conn ELSE conn_string
         IN /\ url # None
                 => /\ ret' = Returns("engine", Len(engines) + 1)
                    /\ engines' = Append(engines, url)
                    /\ engine' = IF op'.persist THEN ret'.val ELSE engine
            /\ url = None
                 => /\ ret' = ReturnsNone
                    /\ engines' = engines
                    /\ engine' = engine]_vars

C11_Witness ==
    /\ op.name = "create_engine" /\ op.conn # None /\ ~op.persist
    /\ ret.kind = "engine"
    /\ engines[ret.val] = op.conn
    /\ engine \in 1..Len(engines) /\ engine # ret.val
    /\ engines[engine] # op.conn

\* C12: in plain mode with a factory, create_session(persist=false) returns a
\* session built by this call: it is none of the sessions that existed before
\* (the persisted one and every one returned earlier), and self.session is
\* left as it was.
C12_UnpersistedSessionIsNew ==
    [][(op'.name = "create_session" /\ ~op'.persist /\ Plain) =>
         /\ ret'.kind = "session"
         /\ ret'.val \notin Held
         /\ ret'.val = Len(sessions')
         /\ ret'.val # session
         /\ sessions'[ret'.val].factory = session_factory.id
         /\ session' = session]_vars

C12_Witness ==
    /\ op.name = "create_session" /\ ~op.persist /\ Plain
    /\ ret = Returns("session", 2)
    /\ session = 1
    /\ sessions[1].factory = session_factory.id

\* the last call compiled an element of one of these classes
Compiled(classes) == op.name = "compile" /\ op.element.class \in classes
MaterializedClasses ==
    {"CreateMaterializedViewExpression", "DropMaterializedViewExpression"}
PlainClasses == {"CreateViewExpression", "DropViewExpression"}
\* the text the last compile call returned
Rendered == statements[1].text

\* C13: the DDL of a view registered with materialized=true has the
\* MATERIALIZED keyword exactly when the dialect is PostgreSQL, and is the
\* plain form (CREATE OR REPLACE VIEW, DROP VIEW IF EXISTS) on every other
\* dialect, without an error; the DDL of a view registered with
\* materialized=false is the plain form on every dialect.
C13_MaterializedOnlyOnPostgres ==
    Compiled(MaterializedClasses \cup PlainClasses) =>
        /\ ret.kind = "sql"
        /\ IF op.element.class \in MaterializedClasses /\ op.dialect = "postgresql"
           THEN Rendered[1] \in {"CREATE OR REPLACE MATERIALIZED VIEW",
                                 "DROP MATERIALIZED VIEW IF EXISTS"}
           ELSE Rendered[1] \in {"CREATE OR REPLACE VIEW", "DROP VIEW IF EXISTS"}
        /\ Rendered[2] = op.element.name

\* C14 as stated: the timestamp expression renders under every dialect, as
\* CURRENT_TIMESTAMP under SQLite and under a dialect no rule names.
C14_RendersUnderEveryDialect ==
    Compiled({"TimestampDefaultExpression"}) =>
        /\ ret.kind = "sql"
        /\ Rendered =
             CASE op.dialect = "mssql" -> <<"GETUTCDATE()">>
               [] op.dialect = "mysql" -> <<"UTC_TIMESTAMP()">>
               [] op.dialect = "oracle" -> <<"SYS_EXTRACT_UTC(SYSTIMESTAMP)">>
               [] op.dialect = "postgresql" -> <<"(NOW() AT TIME ZONE 'UTC')">>
               [] OTHER -> <<"CURRENT_TIMESTAMP">>

\* C14 amended: the timestamp expression renders under the five dialects a
\* rule names (CURRENT_TIMESTAMP under SQLite); under any other dialect, the
\* default one included, the compilation raises a compile error.
C14_RendersUnderNamedDialects ==
    Compiled({"TimestampDefaultExpression"}) =>
        IF op.dialect \in {"mssql", "mysql", "oracle", "postgresql", "sqlite"}
        THEN /\ ret.kind = "sql"
             /\ Rendered =
                  CASE op.dialect = "mssql" -> <<"GETUTCDATE()">>
                    [] op.dialect = "mysql" -> <<"UTC_TIMESTAMP()">>
                    [] op.dialect = "oracle" -> <<"SYS_EXTRACT_UTC(SYSTIMESTAMP)">>
                    [] op.dialect = "postgresql" -> <<"(NOW() AT TIME ZONE 'UTC')">>
                    [] op.dialect = "sqlite" -> <<"CURRENT_TIMESTAMP">>
        ELSE ret = Raises("CompileError") /\ statements = <<>>

C14_Witness ==
    /\ Compiled({"TimestampDefaultExpression"})
    /\ op.dialect = "default"
    /\ ret = Raises("CompileError")

\* everything the manager holds and everything it has built
ManagerState ==
    <<conn_string, metadata, session_factory, session, scoped_sessions, engine,
      engines, n_factories, sessions, rows, listeners>>

C16_BootstrapAppliesIffBoth ==
    [][op'.name = "bootstrap" =>
         LET e == IF op'.engine # None THEN op'.engine ELSE engine
         IN IF e # None /\ metadata # None
            THEN applied' = << <<metadata, e>> >>
            ELSE /\ applied' = <<>>
                 /\ statements' = <<>>
                 /\ ret' = ReturnsNone]_vars

C16_Witness ==
    /\ op.name = "bootstrap" /\ op.engine \in CallerEngines
    /\ metadata # None
    /\ applied = << <<metadata, op.engine>> >>
    /\ ret = ReturnsNone

\* C17: one initialize call captures its descriptor and its metadata and
\* opens its engine before it bootstraps, so the schema applied is this
\* call's metadata on this call's engine; the factory is built after the
\* bootstrap (a bootstrap that raises leaves the factory, the flag and the
\* sessions as they were) and is bound to this call's engine; a session the
\* call builds is built last, by that factory, and is the persisted one.
C17_InitializeOrder ==
    [][op'.name = "initialize" =>
         LET url == IF op'.conn # None THEN op'.conn ELSE conn_string
             md == IF op'.metadata # None THEN op'.metadata ELSE metadata
             eng == IF url # None THEN Len(engines) + 1 ELSE engine
             booted == op'.bootstrap /\ eng # None /\ md # None
         IN /\ conn_string' = url /\ metadata' = md /\ engine' = eng
            /\ url # None => engines' = Append(engines, url)
            /\ applied' = IF booted THEN << <<md, eng>> >> ELSE <<>>
            /\ IF Raised(ret')
               THEN /\ booted
                    /\ session_factory' = session_factory
                    /\ scoped_sessions' = scoped_sessions
                    /\ sessions' = sessions /\ session' = session
               ELSE eng # None =>
                    /\ session_factory'.id = n_factories + 1
                    /\ session_factory'.bind = eng
                    /\ (op'.create_session /\ ~scoped_sessions' /\ session = None)
                          => Len(sessions') = Len(sessions) + 1
                    /\ Len(sessions') > Len(sessions)
                          => /\ op'.create_session
                             /\ session' = Len(sessions')
                             /\ sessions'[session'].factory = session_factory'.id
                             /\ sessions'[session'].bind = eng]_vars

C17_Witness ==
    /\ op.name = "initialize" /\ op.bootstrap /\ op.create_session
    /\ op.conn = 2 /\ op.metadata # None
    /\ Len(engines) = 2 /\ engine = 2 /\ engines[2] = 2
    /\ applied = << <<op.metadata, 2>> >>
    /\ Len(statements) = 2 /\ statements[2].engine = 2
    /\ session_factory.bind = 2
    /\ session # None /\ sessions[session].factory = session_factory.id

\* the heads of the CREATE and of the DROP statement of a view
CreateHeads == {"CREATE OR REPLACE VIEW", "CREATE OR REPLACE MATERIALIZED VIEW"}
DropHeads == {"DROP VIEW IF EXISTS", "DROP MATERIALIZED VIEW IF EXISTS"}

\* C18: create_view emits no statement; a bootstrap that applies the metadata
\* emits, after the tables are created, the CREATE statement of every view
\* registered on the metadata before it, in the order of registration; a
\* schema drop emits the DROP statement of every registered view and then
\* drops the tables; no other call emits a statement.
C18_ViewDDLAtSchemaEvents ==
    [][/\ op'.name \notin {"bootstrap", "initialize", "drop_all", "compile"}
            => statements' = <<>>
       /\ (op'.name = "bootstrap" /\ applied' # <<>>) =>
            LET views == listeners[applied'[1][1]].after_create
            IN /\ Len(statements') = 1 + Len(views)
               /\ statements'[1].text = <<"CREATE TABLE">>
               /\ \A i \in 1..Len(views) :
                    /\ statements'[i + 1].text[1] \in CreateHeads
                    /\ statements'[i + 1].text[2] = views[i].name
                    /\ statements'[i + 1].engine = applied'[1][2]
       /\ op'.name = "drop_all" =>
            LET views == listeners[op'.metadata].before_drop
            IN /\ Len(statements') = Len(views) + 1
               /\ statements'[Len(views) + 1].text = <<"DROP TABLE">>
               /\ \A i \in 1..Len(views) :
                    /\ statements'[i].text[1] \in DropHeads
                    /\ statements'[i].text[2] = views[i].name
                    /\ statements'[i].engine = op'.engine]_vars

\* C19: once self.scoped_sessions is true (set by the constructor or by an
\* earlier initialize) it stays true whatever is called, and every initialize
\* call that finds an engine, with scoped=false too, builds a scoped factory.
C19_ScopedIsSticky ==
    [][scoped_sessions =>
         /\ scoped_sessions'
         /\ (op'.name = "initialize" /\ engine' # None)
               => /\ session_factory'.id = n_factories + 1
                  /\ session_factory'.kind = "scoped"]_vars

C19_Witness ==
    /\ op.name = "initialize" /\ ~op.scoped
    /\ n_factories = 2
    /\ session_factory.id = 2 /\ session_factory.kind = "scoped"
    /\ scoped_sessions

\* C20 as stated: in plain mode the session create_session(persist=true)
\* returns was produced by the manager's current factory and is bound to its
\* current engine.
C20_PersistedSessionIsCurrent ==
    (op.name = "create_session" /\ op.persist /\ Plain /\ ret.kind = "session")
        => /\ sessions[ret.val].factory = session_factory.id
           /\ sessions[ret.val].bind = engine

\* C20 amended: in plain mode create_session(persist=true) returns the
\* persisted session when one is set, whichever factory produced it, and
\* builds nothing; only when none is set does it return a new session of the
\* current factory, bound to that factory's engine, and persist it.
C20_PersistedSessionOutlivesFactory ==
    [][(op'.name = "create_session" /\ op'.persist /\ Plain) =>
         IF session # None
         THEN ret' = Returns("session", session)
              /\ session' = session /\ sessions' = sessions
         ELSE /\ ret' = Returns("session", Len(sessions) + 1)
              /\ session' = ret'.val
              /\ sessions'[ret'.val].factory = session_factory.id
              /\ sessions'[ret'.val].bind = session_factory.bind]_vars

C20_Witness ==
    /\ op.name = "create_session" /\ op.persist /\ Plain
    /\ ret = Returns("session", session)
    /\ sessions[session].factory \notin {None, session_factory.id}
    /\ BackendOf(Self, session) # conn_string
    /\ sessions[session].bind # engine

\* C21 as stated: in plain mode the session create_session(persist=true)
\* returns is open, whatever create_session and close_session calls, with or
\* without a session argument, came before.
C21_PersistedSessionIsOpen ==
    (op.name = "create_session" /\ op.persist /\ Plain /\ ret.kind = "session")
        => ~sessions[ret.val].closed

\* C21 amended: the persisted session becomes closed while it stays persisted
\* only by close_session called with that very session as its argument;
\* close_session without an argument closes the persisted session and
\* clears the field.  So in plain mode create_session(persist=true) returns
\* a closed session exactly when the persisted session was closed that way,
\* and a session it builds is open.
C21_ClosedOnlyByExplicitClose ==
    [][/\ (/\ session' # None
           /\ sessions'[session'].closed
           /\ ~(session = session' /\ sessions[session].closed))
            => /\ op'.name = "close_session"
               /\ op'.session = session'
               /\ session = session'
       /\ (op'.name = "close_session" /\ op'.session = None /\ ~scoped_sessions
           /\ session # None)
            => session' = None /\ sessions'[session].closed
       /\ (op'.name = "create_session" /\ op'.persist /\ Plain) =>
            /\ ret'.kind = "session"
            /\ sessions'[ret'.val].closed
                 <=> (session # None /\ sessions[session].closed)]_vars

C21_Witness ==
    /\ op.name = "create_session" /\ op.persist /\ Plain
    /\ ret = Returns("session", session)
    /\ sessions[session].closed
    /\ sessions[session].factory = session_factory.id

\* C22: query runs on self.session and on nothing else: while self.session
\* is unset (no persisted session built yet, after close_session(), in scoped
\* mode) it raises whatever its filters are and changes nothing, and when it
\* returns a query the query is on self.session.
C22_QueryNeedsPersistedSession ==
    [][op'.name = "query" =>
         /\ session = None
              => /\ ret' = Raises("AttributeError")
                 /\ ManagerState' = ManagerState
         /\ ret'.kind = "query"
              => session # None /\ ret'.val = session]_vars

C22_Witness ==
    /\ op.name = "query" /\ op.kwargs = {"id"}
    /\ session = None
    /\ Scoped
    /\ \E c \in Contexts : session_factory.registry[c] # None
    /\ ret = Raises("AttributeError")

\* C23: create_engine with an explicit descriptor stores that descriptor,
\* with persist false too, in which case the stored engine is unchanged; a
\* no-argument create_engine or initialize opens its engine on the stored
\* descriptor, so right after create_engine(d) it opens it on d.
C23_ExplicitDescriptorIsStored ==
    [][/\ (op'.name = "create_engine" /\ op'.conn # None)
            => /\ conn_string' = op'.conn
               /\ ~op'.persist => engine' = engine
       /\ (op'.name \in {"create_engine", "initialize"} /\ op'.conn = None)
            => /\ conn_string' = conn_string
               /\ conn_string # None => engines' = Append(engines, conn_string)
               /\ (op.name = "create_engine" /\ op.conn # None)
                     => engines' = Append(engines, op.conn)]_vars

C23_Witness ==
    /\ op.name = "create_engine" /\ op.conn = 2 /\ ~op.persist
    /\ conn_string = 2
    /\ engines = <<1, 2>>
    /\ engine = 1
    /\ ret = Returns("engine", 2)

====
